---- MODULE Spec2Model ----
(***************************************************************************)
(* The chat backend: profiles, conversations, memberships, messages,        *)
(* reactions, presence and typing signals (convex/*.ts).                   *)
(*                                                                         *)
(* A handler is an operator from the database it reads, the clock and its  *)
(* arguments to an outcome: either Thrown (the transaction is rolled back, *)
(* the database is the one it was given) or Returned with the database it  *)
(* leaves.  A mutation is one atomic action that applies its handler; a    *)
(* query is its handler evaluated on the current database.                 *)
(***************************************************************************)
EXTENDS Integers, Sequences, FiniteSets, TLC

\* ---------------------------------------------------------------- bounds
MaxConvs == 2
MaxMsgs == 2
MaxTime == 2
MaxMemberIds == 2
MaxReactions == 3
MaxIdle == 2
MaxPending == 2

\* ---------------------------------------------------------------- constants
ONLINE_THRESHOLD_MS == 60000
TYPING_TIMEOUT_MS == 3000

\* ---------------------------------------------------------------- inputs
\* External (Clerk) subjects.  "dave" is signed in but has no profile yet;
\* NoIdentity is a request without a verified identity.
Registered == <<"alice", "bob", "carol">>
NoIdentity == "anonymous"
Callers == {"alice", "bob", "carol", "dave", NoIdentity}

Whitespace == {" "}
Blank == <<" ">>
Hi == <<"h", "i">>
PaddedHi == <<" ", "h", "i", " ">>
Contents == {Blank, Hi, PaddedHi}
Names == {Blank, <<"g">>, <<" ", "g">>}
\* Attachment arguments of send: none, a stored file, a MIME type without a file.
Absent == "<absent>"
NoFile == [fileId |-> Absent, fileType |-> Absent, fileName |-> Absent]
File1 == [fileId |-> "f1", fileType |-> "image/png", fileName |-> "a.png"]
TypeOnly == [fileId |-> Absent, fileType |-> "image/png", fileName |-> Absent]
Files == {NoFile, File1, TypeOnly}
\* What the clients of Spec submit: nothing, a MIME type alone, text with a file.
\* The claims evaluate send on every pair of Contents \X Files.
SendInputs == {<<Blank, NoFile>>, <<Blank, TypeOnly>>, <<PaddedHi, File1>>}
NoName == <<Absent>>
Null == [null |-> TRUE]

VARIABLES users, conversations, members, messages, reactions, presence, typing,
          now, firstDM, client

vars == <<users, conversations, members, messages, reactions, presence, typing,
          now, firstDM, client>>

\* The database a handler runs against.
DB == [users |-> users, conversations |-> conversations,
       members |-> members, messages |-> messages,
       reactions |-> reactions, presence |-> presence, typing |-> typing]

\* ---------------------------------------------------------------- helpers
RECURSIVE trimStart(_)
trimStart(s) ==
  IF s # <<>> /\ Head(s) \in Whitespace THEN trimStart(Tail(s)) ELSE s

RECURSIVE trimEnd(_)
trimEnd(s) ==
  IF s # <<>> /\ s[Len(s)] \in Whitespace THEN trimEnd(SubSeq(s, 1, Len(s) - 1)) ELSE s

\* String.prototype.trim
trim(s) == trimEnd(trimStart(s))

\* The ids of a table's rows (their positions), in creation order.
RowIds(t) == [i \in 1..Len(t) |-> i]

Range(s) == {s[i] : i \in 1..Len(s)}
UserIds == 1..Len(users)

Thrown(db, msg) == [ok |-> FALSE, error |-> msg, db |-> db]
Returned(db, v) == [ok |-> TRUE, value |-> v, db |-> db]

\* db.query(table).withIndex(...).unique(): null (0) for no row, the row's id
\* for one row; it throws when more than one row matches.
uniqueThrows(ids) == Len(ids) > 1
unique(ids) == IF Len(ids) = 0 THEN 0 ELSE ids[1]
UniqueError == "unique() query returned more than one result"

usersByClerkId(db, subject) ==
  SelectSeq(RowIds(db.users), LAMBDA i : db.users[i].clerkId = subject)

\* helpers.ts getAuthUser: the caller's user id, or throws.
getAuthUser(db, caller) ==
  IF caller = NoIdentity THEN Thrown(db, "Unauthenticated")
  ELSE LET rows == usersByClerkId(db, caller)
       IN IF uniqueThrows(rows) THEN Thrown(db, UniqueError)
          ELSE IF unique(rows) = 0
            THEN Thrown(db, "User profile not found. Call upsertUser first.")
          ELSE Returned(db, unique(rows))

\* helpers.ts getAuthUserOrNull: the caller's user id, or 0 for null.
getAuthUserOrNull(db, caller) ==
  IF caller = NoIdentity THEN 0
  ELSE LET rows == usersByClerkId(db, caller)
       IN IF uniqueThrows(rows) THEN 0 ELSE unique(rows)

\* members.by_user
membersByUser(db, u) ==
  SelectSeq(RowIds(db.members), LAMBDA i : db.members[i].userId = u)

\* members.by_conversation
membersByConversation(db, c) ==
  SelectSeq(RowIds(db.members), LAMBDA i : db.members[i].conversationId = c)

\* members.by_user_and_conversation
membersByUserAndConversation(db, u, c) ==
  SelectSeq(RowIds(db.members),
            LAMBDA i : db.members[i].userId = u /\ db.members[i].conversationId = c)

\* ---------------------------------------------------------------- users
\* users.ts upsertUser: the profile of args.clerkId.  The handler does not read
\* ctx.auth: the caller has no part in it.
upsertUser(db, caller, clerkId, name, email, imageUrl) ==
  LET rows == usersByClerkId(db, clerkId) IN
  IF uniqueThrows(rows) THEN Thrown(db, UniqueError)
  ELSE IF unique(rows) # 0
    THEN Returned([db EXCEPT !.users[unique(rows)] =
                     [@ EXCEPT !.name = name, !.imageUrl = imageUrl]],
                  unique(rows))
  ELSE Returned([db EXCEPT !.users = Append(@,
                   [clerkId |-> clerkId, name |-> name,
                    email |-> email, imageUrl |-> imageUrl])],
                Len(db.users) + 1)

\* messages.ts generateUploadUrl: a one-time URL of the file storage.
UploadUrl == "https://upload"
generateUploadUrl(db, caller) ==
  LET auth == getAuthUser(db, caller) IN
  IF ~auth.ok THEN auth ELSE Returned(db, UploadUrl)

\* ---------------------------------------------------------------- DM
\* Mutant of findDM: the isGroup test is left out.
findDMAnyShared(db, me, other) ==
  LET myConversationIds ==
        {db.members[i].conversationId : i \in Range(membersByUser(db, me))}
      theirMemberships == membersByUser(db, other)
      hits == {k \in 1..Len(theirMemberships) :
                 db.members[theirMemberships[k]].conversationId \in myConversationIds}
  IN IF hits = {} THEN 0
     ELSE db.members[theirMemberships[CHOOSE k \in hits : \A j \in hits : k <= j]].conversationId

\* Mutant of findDM: the isGroup test is inverted.
findDMGroupsOnly(db, me, other) ==
  LET myConversationIds ==
        {db.members[i].conversationId : i \in Range(membersByUser(db, me))}
      theirMemberships == membersByUser(db, other)
      hits == {k \in 1..Len(theirMemberships) :
                 LET membership == db.members[theirMemberships[k]] IN
                   /\ membership.conversationId \in myConversationIds
                   /\ db.conversations[membership.conversationId].isGroup}
  IN IF hits = {} THEN 0
     ELSE db.members[theirMemberships[CHOOSE k \in hits : \A j \in hits : k <= j]].conversationId

\* conversations.ts 14-35: the first membership of the other user, in by_user
\* order, whose conversation the caller is in too and is not a group; 0 if none.
findDM(db, me, other) ==
  LET myMemberships == membersByUser(db, me)
      myConversationIds == {db.members[i].conversationId : i \in Range(myMemberships)}
      theirMemberships == membersByUser(db, other)
      hits == {k \in 1..Len(theirMemberships) :
                 LET membership == db.members[theirMemberships[k]] IN
                   /\ membership.conversationId \in myConversationIds
                   /\ ~db.conversations[membership.conversationId].isGroup}
  IN IF hits = {} THEN 0
     ELSE db.members[theirMemberships[CHOOSE k \in hits : \A j \in hits : k <= j]].conversationId

getOrCreateDM(db, t, caller, otherUserId) ==
  LET auth == getAuthUser(db, caller) IN
  IF ~auth.ok THEN auth
  ELSE LET currentUser == auth.value
           found == findDM(db, currentUser, otherUserId)
           conversationId == Len(db.conversations) + 1
       IN IF found # 0 THEN Returned(db, found)
          ELSE Returned(
                 [db EXCEPT
                    !.conversations = Append(@,
                       [isGroup |-> FALSE, name |-> NoName,
                        lastMessageId |-> 0, lastMessageTime |-> t]),
                    !.members = @ \o
                       << [conversationId |-> conversationId,
                           userId |-> currentUser, lastReadTime |-> t],
                          [conversationId |-> conversationId,
                           userId |-> otherUserId, lastReadTime |-> 0] >>],
                 conversationId)

\* ---------------------------------------------------------------- group
\* [...new Set(memberIds)]: first occurrences, in order.
RECURSIVE dedupe(_)
dedupe(s) ==
  IF s = <<>> THEN <<>>
  ELSE LET init == dedupe(SubSeq(s, 1, Len(s) - 1))
           x == s[Len(s)]
       IN IF x \in Range(init) THEN init ELSE Append(init, x)

\* conversations.ts 97-106: one row per selected member, the creator skipped.
RECURSIVE invitedRows(_, _, _)
invitedRows(conversationId, currentUser, ids) ==
  IF ids = <<>> THEN <<>>
  ELSE (IF Head(ids) = currentUser THEN <<>>
        ELSE << [conversationId |-> conversationId,
                 userId |-> Head(ids), lastReadTime |-> 0] >>)
       \o invitedRows(conversationId, currentUser, Tail(ids))

createGroup(db, t, caller, name, memberIds) ==
  LET auth == getAuthUser(db, caller) IN
  IF ~auth.ok THEN auth
  ELSE IF trim(name) = <<>> THEN Thrown(db, "Group name cannot be empty")
  ELSE IF Len(memberIds) < 1 THEN Thrown(db, "A group needs at least 2 members")
  ELSE LET currentUser == auth.value
           conversationId == Len(db.conversations) + 1
       IN Returned(
            [db EXCEPT
               !.conversations = Append(@,
                  [isGroup |-> TRUE, name |-> trim(name),
                   lastMessageId |-> 0, lastMessageTime |-> t]),
               !.members = @
                  \o << [conversationId |-> conversationId,
                         userId |-> currentUser, lastReadTime |-> t] >>
                  \o invitedRows(conversationId, currentUser, dedupe(memberIds))],
            conversationId)

\* ---------------------------------------------------------------- read
\* A stable ascending sort (Array.prototype.sort, an index scan): the
\* positions of keys, smallest key first, equal keys in their given order.
RECURSIVE sortedOrder(_)
sortedOrder(keys) ==
  IF keys = <<>> THEN <<>>
  ELSE LET n == Len(keys)
           r == sortedOrder(SubSeq(keys, 1, n - 1))
           later == {j \in 1..Len(r) : keys[n] < keys[r[j]]}
           k == IF later = {} THEN Len(r) + 1
                ELSE CHOOSE j \in later : \A i \in later : j <= i
       IN SubSeq(r, 1, k - 1) \o <<n>> \o SubSeq(r, k, Len(r))

\* Mutant of messagesByConversationAndTime: the index is read newest first.
messagesByConversationNewestFirst(db, c, after) ==
  LET ids == SelectSeq(RowIds(db.messages),
                       LAMBDA i : /\ db.messages[i].conversationId = c
                                  /\ db.messages[i].sentAt > after)
      order == sortedOrder([k \in 1..Len(ids) |-> db.messages[ids[k]].sentAt])
  IN [k \in 1..Len(ids) |-> ids[order[Len(ids) + 1 - k]]]

\* messages.by_conversation_and_time: ids of the conversation's messages with
\* sentAt > after, ordered by sentAt, then by creation.
messagesByConversationAndTime(db, c, after) ==
  LET ids == SelectSeq(RowIds(db.messages),
                       LAMBDA i : /\ db.messages[i].conversationId = c
                                  /\ db.messages[i].sentAt > after)
      order == sortedOrder([k \in 1..Len(ids) |-> db.messages[ids[k]].sentAt])
  IN [k \in 1..Len(ids) |-> ids[order[k]]]

\* Mutant of unreadCount: gte in place of gt on the index range.
unreadCountInclusive(db, c, lastReadTime, me) ==
  LET unreadMessages == messagesByConversationAndTime(db, c, lastReadTime - 1)
  IN Cardinality({i \in Range(unreadMessages) : db.messages[i].senderId # me})

\* conversations.ts 151-162
unreadCount(db, c, lastReadTime, me) ==
  LET unreadMessages == messagesByConversationAndTime(db, c, lastReadTime)
  IN Cardinality({i \in Range(unreadMessages) : db.messages[i].senderId # me})

\* The ids of the other members' users, in by_conversation order.
otherUsersOf(db, c, me) ==
  LET allMembers == membersByConversation(db, c)
      hit(i) == db.members[i].userId # me
      others == SelectSeq(allMembers, hit)
  IN [k \in 1..Len(others) |-> db.members[others[k]].userId]

\* conversations.ts 127-173: the entry of one membership row.
conversationEntry(db, me, membershipId) ==
  LET membership == db.members[membershipId]
      c == membership.conversationId
      conversation == db.conversations[c]
  IN [_id |-> c,
      isGroup |-> conversation.isGroup,
      name |-> conversation.name,
      lastMessageId |-> conversation.lastMessageId,
      lastMessageTime |-> conversation.lastMessageTime,
      otherUsers |-> otherUsersOf(db, c, me),
      memberCount |-> Len(membersByConversation(db, c)),
      lastMessage |-> IF conversation.lastMessageId # 0
                        THEN db.messages[conversation.lastMessageId] ELSE Null,
      unreadCount |-> unreadCount(db, c, membership.lastReadTime, me),
      myLastReadTime |-> membership.lastReadTime]

listMyConversations(db, caller) ==
  LET currentUser == getAuthUserOrNull(db, caller) IN
  IF currentUser = 0 THEN <<>>
  ELSE LET memberships == membersByUser(db, currentUser)
           entries == [k \in 1..Len(memberships) |->
                         conversationEntry(db, currentUser, memberships[k])]
           \* (a, b) => b.lastMessageTime - a.lastMessageTime: newest first
           order == sortedOrder([k \in 1..Len(entries) |-> 0 - entries[k].lastMessageTime])
       IN [k \in 1..Len(entries) |-> entries[order[k]]]

getConversation(db, caller, conversationId) ==
  LET currentUser == getAuthUserOrNull(db, caller) IN
  IF currentUser = 0 THEN Null
  ELSE IF conversationId > Len(db.conversations) THEN Null
  ELSE LET conversation == db.conversations[conversationId]
           allMembers == membersByConversation(db, conversationId)
           isMember == \E i \in Range(allMembers) : db.members[i].userId = currentUser
       IN IF ~isMember THEN Null
          ELSE [_id |-> conversationId,
                isGroup |-> conversation.isGroup,
                name |-> conversation.name,
                lastMessageId |-> conversation.lastMessageId,
                lastMessageTime |-> conversation.lastMessageTime,
                otherUsers |-> otherUsersOf(db, conversationId, currentUser),
                allUsers |-> [k \in 1..Len(allMembers) |-> db.members[allMembers[k]].userId],
                memberCount |-> Len(allMembers)]

\* messages.ts list: the conversation's messages, oldest first.
list(db, caller, conversationId) ==
  LET currentUser == getAuthUserOrNull(db, caller) IN
  IF currentUser = 0 THEN Returned(db, <<>>)
  ELSE LET rows == membersByUserAndConversation(db, currentUser, conversationId) IN
       IF uniqueThrows(rows) THEN Thrown(db, UniqueError)
       ELSE IF unique(rows) = 0 THEN Returned(db, <<>>)
       ELSE LET ids == messagesByConversationAndTime(db, conversationId, -1)
            IN Returned(db,
                 [k \in 1..Len(ids) |->
                    [_id |-> ids[k],
                     message |-> db.messages[ids[k]],
                     sender |-> db.messages[ids[k]].senderId,
                     fileUrl |-> IF db.messages[ids[k]].fileId # Absent
                                   THEN db.messages[ids[k]].fileId ELSE Absent,
                     isOwnMessage |-> db.messages[ids[k]].senderId = currentUser]])

\* ---------------------------------------------------------------- write
\* Mutant of markAsRead: every member's read cursor is moved.
markAsReadForEverybody(db, t, caller, conversationId) ==
  LET auth == getAuthUser(db, caller) IN
  IF ~auth.ok THEN auth
  ELSE LET rows == membersByUserAndConversation(db, auth.value, conversationId) IN
       IF uniqueThrows(rows) THEN Thrown(db, UniqueError)
       ELSE IF unique(rows) = 0 THEN Thrown(db, "Not a member")
       ELSE Returned(
              [db EXCEPT !.members =
                 [i \in 1..Len(@) |->
                    IF @[i].conversationId = conversationId
                      THEN [@[i] EXCEPT !.lastReadTime = t] ELSE @[i]]], 0)

\* Mutant of markAsRead: the read cursor is not moved.
markAsReadKeepsCursor(db, t, caller, conversationId) ==
  LET auth == getAuthUser(db, caller) IN
  IF ~auth.ok THEN auth
  ELSE LET rows == membersByUserAndConversation(db, auth.value, conversationId) IN
       IF uniqueThrows(rows) THEN Thrown(db, UniqueError)
       ELSE IF unique(rows) = 0 THEN Thrown(db, "Not a member")
       ELSE Returned(db, 0)

markAsRead(db, t, caller, conversationId) ==
  LET auth == getAuthUser(db, caller) IN
  IF ~auth.ok THEN auth
  ELSE LET rows == membersByUserAndConversation(db, auth.value, conversationId) IN
       IF uniqueThrows(rows) THEN Thrown(db, UniqueError)
       ELSE IF unique(rows) = 0 THEN Thrown(db, "Not a member")
       ELSE Returned([db EXCEPT !.members[unique(rows)].lastReadTime = t], 0)

\* Mutant of sendAccepts: the validation is gone.
sendAcceptsAnything(content, file) == TRUE

\* messages.ts 327-332
sendAccepts(content, file) ==
  LET hasText == trim(content) # <<>>
      hasFile == file.fileId # Absent
  IN hasText \/ hasFile

\* messages.ts 347-359: the inserted row; file fields only with a fileId.
newMessage(t, conversationId, currentUser, content, file) ==
  [conversationId |-> conversationId,
   senderId |-> currentUser,
   content |-> trim(content),
   isDeleted |-> FALSE,
   sentAt |-> t,
   fileId |-> file.fileId,
   fileType |-> IF file.fileId # Absent THEN file.fileType ELSE Absent,
   fileName |-> IF file.fileId # Absent THEN file.fileName ELSE Absent]

\* Mutant of senderCaughtUp: the sender's read cursor is not moved.
senderNotCaughtUp(membership, t) == membership

\* messages.ts 366-368: the sender has read up to its own message.
senderCaughtUp(membership, t) == [membership EXCEPT !.lastReadTime = t]

\* Mutant of lastMessageSet: the pointer is moved, the timestamp is not.
lastMessageSetKeepsTime(conversation, messageId, t) ==
  [conversation EXCEPT !.lastMessageId = messageId]

\* messages.ts 361-364: the conversation's denormalised last message.
lastMessageSet(conversation, messageId, t) ==
  [conversation EXCEPT !.lastMessageId = messageId, !.lastMessageTime = t]

send(db, t, caller, conversationId, content, file) ==
  LET auth == getAuthUser(db, caller) IN
  IF ~auth.ok THEN auth
  ELSE IF ~sendAccepts(content, file)
    THEN Thrown(db, "Message must have content or a file")
  ELSE LET rows == membersByUserAndConversation(db, auth.value, conversationId) IN
       IF uniqueThrows(rows) THEN Thrown(db, UniqueError)
       ELSE IF unique(rows) = 0 THEN Thrown(db, "Not a member of this conversation")
       ELSE LET messageId == Len(db.messages) + 1
            IN Returned(
                 [db EXCEPT
                    !.messages = Append(@,
                       newMessage(t, conversationId, auth.value, content, file)),
                    !.conversations[conversationId] =
                       lastMessageSet(@, messageId, t),
                    !.members[unique(rows)] = senderCaughtUp(@, t)],
                 messageId)

\* Mutant of mayDelete: anybody may delete.
mayDeleteAnyone(message, currentUser) == TRUE

\* messages.ts 382-384
mayDelete(message, currentUser) == message.senderId = currentUser

\* Mutant of deletedForm: the flag is flipped instead of set.
deletedFormToggle(message) ==
  [message EXCEPT !.isDeleted = ~message.isDeleted, !.content = <<>>]

\* Mutant of deletedForm: the attachment reference is cleared as well.
deletedFormDropsFile(message) ==
  [message EXCEPT !.isDeleted = TRUE, !.content = <<>>, !.fileId = Absent]

\* messages.ts 389-392
deletedForm(message) == [message EXCEPT !.isDeleted = TRUE, !.content = <<>>]

softDelete(db, caller, messageId) ==
  LET auth == getAuthUser(db, caller) IN
  IF ~auth.ok THEN auth
  ELSE IF messageId > Len(db.messages) THEN Thrown(db, "Message not found")
  ELSE IF ~mayDelete(db.messages[messageId], auth.value)
    THEN Thrown(db, "You can only delete your own messages")
  ELSE Returned([db EXCEPT !.messages[messageId] = deletedForm(@)], 0)

\* ---------------------------------------------------------------- reactions
\* emoji is v.string(): the server takes any string.  Two of the client's
\* emoji, and a string that names a property of Object.prototype.
ThumbsUp == "thumbsup"
Heart == "heart"
Emojis == {ThumbsUp, Heart, "constructor"}

\* delete(_id): the table without that row.
deleteRow(t, i) == SubSeq(t, 1, i - 1) \o SubSeq(t, i + 1, Len(t))

\* reactions.by_message
reactionsByMessage(db, m) ==
  SelectSeq(RowIds(db.reactions), LAMBDA i : db.reactions[i].messageId = m)

\* reactions.by_message_and_user
reactionsByMessageAndUser(db, m, u) ==
  SelectSeq(RowIds(db.reactions),
            LAMBDA i : db.reactions[i].messageId = m /\ db.reactions[i].userId = u)

\* Mutant of existingReaction: the emoji filter is left out.
existingReactionAnyEmoji(db, m, u, emoji) == reactionsByMessageAndUser(db, m, u)

\* Mutant of existingReaction: the lookup never finds a row.
existingReactionNone(db, m, u, emoji) == <<>>

\* reactions.ts 34-40, before .unique()
existingReaction(db, m, u, emoji) ==
  LET hit(i) == db.reactions[i].emoji = emoji
  IN SelectSeq(reactionsByMessageAndUser(db, m, u), hit)

toggleReaction(db, caller, messageId, emoji) ==
  LET auth == getAuthUser(db, caller) IN
  IF ~auth.ok THEN auth
  ELSE LET rows == existingReaction(db, messageId, auth.value, emoji) IN
       IF uniqueThrows(rows) THEN Thrown(db, UniqueError)
       ELSE IF unique(rows) # 0
         THEN Returned([db EXCEPT !.reactions = deleteRow(@, unique(rows))], 0)
       ELSE Returned(
              [db EXCEPT !.reactions = Append(@,
                 [messageId |-> messageId, userId |-> auth.value, emoji |-> emoji])],
              0)

\* const grouped = {}: a plain object.  grouped[key] of a key that
\* Object.prototype has reads as truthy before anything is assigned, so no
\* array is made and grouped[key].push(...) is a TypeError.
PrototypeKeys == {"constructor", "toString", "valueOf", "hasOwnProperty", "__proto__"}
groupingThrows(db, rows) ==
  \E i \in Range(rows) : db.reactions[i].emoji \in PrototypeKeys
TypeError == "grouped[reaction.emoji].push is not a function"

\* reactions.ts 74-89: one summary per emoji, in the order the emoji first
\* occur; currentUser is 0 for null.
summaries(db, rows, currentUser) ==
  LET emojis == dedupe([k \in 1..Len(rows) |-> db.reactions[rows[k]].emoji])
      userIds(e) == SelectSeq(rows, LAMBDA i : db.reactions[i].emoji = e)
  IN [k \in 1..Len(emojis) |->
        [emoji |-> emojis[k],
         count |-> Len(userIds(emojis[k])),
         hasReacted |-> /\ currentUser # 0
                        /\ \E i \in Range(userIds(emojis[k])) :
                             db.reactions[i].userId = currentUser]]

getReactions(db, caller, messageId) ==
  LET currentUser == getAuthUserOrNull(db, caller)
      allReactions == reactionsByMessage(db, messageId)
  IN IF groupingThrows(db, allReactions) THEN Thrown(db, TypeError)
     ELSE Returned(db, summaries(db, allReactions, currentUser))

\* messages.by_conversation
messagesByConversation(db, c) ==
  SelectSeq(RowIds(db.messages), LAMBDA i : db.messages[i].conversationId = c)

\* The result is a record keyed by message id: here a function on the ids of
\* the conversation's messages that have a reaction.
getReactionsForConversation(db, caller, conversationId) ==
  LET currentUser == getAuthUserOrNull(db, caller)
      ids == messagesByConversation(db, conversationId)
      reacted == {m \in Range(ids) : Len(reactionsByMessage(db, m)) # 0}
  IN IF \E m \in reacted : groupingThrows(db, reactionsByMessage(db, m))
       THEN Thrown(db, TypeError)
     ELSE Returned(db,
            [m \in reacted |-> summaries(db, reactionsByMessage(db, m), currentUser)])

\* ---------------------------------------------------------------- presence
\* presence.by_user
presenceByUser(db, u) ==
  SelectSeq(RowIds(db.presence), LAMBDA i : db.presence[i].userId = u)

setOnline(db, t, caller) ==
  LET auth == getAuthUser(db, caller) IN
  IF ~auth.ok THEN auth
  ELSE LET rows == presenceByUser(db, auth.value) IN
       IF uniqueThrows(rows) THEN Thrown(db, UniqueError)
       ELSE IF unique(rows) # 0
         THEN Returned([db EXCEPT !.presence[unique(rows)] =
                          [@ EXCEPT !.isOnline = TRUE, !.lastSeen = t]], 0)
       ELSE Returned([db EXCEPT !.presence = Append(@,
                        [userId |-> auth.value, isOnline |-> TRUE, lastSeen |-> t])], 0)

setOffline(db, t, caller) ==
  LET auth == getAuthUser(db, caller) IN
  IF ~auth.ok THEN auth
  ELSE LET rows == presenceByUser(db, auth.value) IN
       IF uniqueThrows(rows) THEN Thrown(db, UniqueError)
       ELSE IF unique(rows) # 0
         THEN Returned([db EXCEPT !.presence[unique(rows)] =
                          [@ EXCEPT !.isOnline = FALSE, !.lastSeen = t]], 0)
       ELSE Returned(db, 0)

\* Mutant of heartbeat: a heartbeat does what setOnline does.
heartbeatGoesOnline(db, t, caller) == setOnline(db, t, caller)

heartbeat(db, t, caller) ==
  LET auth == getAuthUser(db, caller) IN
  IF ~auth.ok THEN auth
  ELSE LET rows == presenceByUser(db, auth.value) IN
       IF uniqueThrows(rows) THEN Thrown(db, UniqueError)
       ELSE IF unique(rows) # 0
         THEN Returned([db EXCEPT !.presence[unique(rows)].lastSeen = t], 0)
       ELSE Returned(db, 0)

\* Mutant of isRecentlyActive: a lastSeen exactly the threshold old still counts.
isRecentlyActiveInclusive(t, lastSeen) == t - lastSeen <= ONLINE_THRESHOLD_MS

\* presence.ts 98
isRecentlyActive(t, lastSeen) == t - lastSeen < ONLINE_THRESHOLD_MS

\* presence.ts 90-102: userId -> boolean; a later row of a user overwrites an
\* earlier one.
getPresenceMap(db, t) ==
  LET allPresence == db.presence
      lastRowOf(u) == CHOOSE i \in 1..Len(allPresence) :
                        /\ allPresence[i].userId = u
                        /\ \A j \in 1..Len(allPresence) :
                             allPresence[j].userId = u => j <= i
  IN [u \in {allPresence[i].userId : i \in 1..Len(allPresence)} |->
        /\ allPresence[lastRowOf(u)].isOnline
        /\ isRecentlyActive(t, allPresence[lastRowOf(u)].lastSeen)]

\* ---------------------------------------------------------------- typing
\* Mutant of typingByUserAndConversation: the index lookup finds nothing.
typingByUserAndConversationMisses(db, u, c) == <<>>

\* typing.by_user_and_conversation
typingByUserAndConversation(db, u, c) ==
  SelectSeq(RowIds(db.typing),
            LAMBDA i : db.typing[i].userId = u /\ db.typing[i].conversationId = c)

\* typing.by_conversation
typingByConversation(db, c) ==
  SelectSeq(RowIds(db.typing), LAMBDA i : db.typing[i].conversationId = c)

setTyping(db, t, caller, conversationId) ==
  LET auth == getAuthUser(db, caller) IN
  IF ~auth.ok THEN auth
  ELSE LET rows == typingByUserAndConversation(db, auth.value, conversationId) IN
       IF uniqueThrows(rows) THEN Thrown(db, UniqueError)
       ELSE IF unique(rows) # 0
         THEN Returned([db EXCEPT !.typing[unique(rows)].updatedAt = t], 0)
       ELSE Returned([db EXCEPT !.typing = Append(@,
                        [conversationId |-> conversationId,
                         userId |-> auth.value, updatedAt |-> t])], 0)

clearTyping(db, caller, conversationId) ==
  LET auth == getAuthUser(db, caller) IN
  IF ~auth.ok THEN auth
  ELSE LET rows == typingByUserAndConversation(db, auth.value, conversationId) IN
       IF uniqueThrows(rows) THEN Thrown(db, UniqueError)
       ELSE IF unique(rows) # 0
         THEN Returned([db EXCEPT !.typing = deleteRow(@, unique(rows))], 0)
       ELSE Returned(db, 0)

\* Mutant of isActiveTyper: a row exactly the timeout old still counts.
isActiveTyperInclusive(row, currentUser, cutoff) ==
  row.userId # currentUser /\ row.updatedAt >= cutoff

\* typing.ts 347-349
isActiveTyper(row, currentUser, cutoff) ==
  row.userId # currentUser /\ row.updatedAt > cutoff

\* The profiles of the active typers, in by_conversation order.
getTypingUsers(db, t, caller, conversationId) ==
  LET currentUser == getAuthUserOrNull(db, caller) IN
  IF currentUser = 0 THEN <<>>
  ELSE LET cutoff == t - TYPING_TIMEOUT_MS
           typingRows == typingByConversation(db, conversationId)
           active(i) == isActiveTyper(db.typing[i], currentUser, cutoff)
           activeTypers == SelectSeq(typingRows, active)
       IN [k \in 1..Len(activeTypers) |->
             [_id |-> db.typing[activeTypers[k]].userId,
              user |-> db.users[db.typing[activeTypers[k]].userId]]]

\* ---------------------------------------------------------------- message input
\* One mounted MessageInput (with its useTyping hook) of ClientUser on the page
\* of ClientConversation.  outbox holds the mutations the client has issued
\* and the server has not applied yet; the server applies them in issue order.
ClientUser == "alice"
ClientConversation == 1
ClientValues == {<<>>, Blank, Hi}

Mutation(name, content, file, awaited) ==
  [name |-> name, content |-> content, file |-> file, awaited |-> awaited]

\* MessageInput.tsx 53-62, useTyping.ts 40-42: state and refs after mounting.
\* awaiting/reply: the await handleSend is suspended at and its outcome;
\* sent: the last handleSend completed and no key was pressed since.
mountedInput ==
  [content |-> <<>>, selectedFile |-> NoFile, isUploading |-> FALSE,
   isTyping |-> FALSE, debounceTimer |-> FALSE, autoClearTimer |-> FALSE,
   contentToSend |-> <<>>, fileToUpload |-> NoFile,
   outbox |-> <<>>, awaiting |-> "nothing", reply |-> "none", sent |-> FALSE]

\* useTyping.ts 44-67
notifyTyping(c) ==
  LET fired == IF c.debounceTimer THEN c
               ELSE [c EXCEPT !.isTyping = TRUE,
                              !.outbox = Append(@, Mutation("setTyping", <<>>, NoFile, FALSE)),
                              !.debounceTimer = TRUE]
  IN [fired EXCEPT !.autoClearTimer = TRUE]

\* useTyping.ts 55-57: the debounce timer's callback.
debounceElapsed(c) == [c EXCEPT !.debounceTimer = FALSE]

\* useTyping.ts 61-66: the auto-clear timer's callback.
autoClearElapsed(c) ==
  LET fired == [c EXCEPT !.autoClearTimer = FALSE] IN
  IF c.isTyping
    THEN [fired EXCEPT !.isTyping = FALSE,
                       !.outbox = Append(@, Mutation("clearTyping", <<>>, NoFile, FALSE))]
    ELSE fired

\* Mutant of clearTypingOnSend: the timers are stopped, no mutation is issued.
clearTypingOnSendSilent(c) ==
  [c EXCEPT !.debounceTimer = FALSE, !.autoClearTimer = FALSE, !.isTyping = FALSE]

\* useTyping.ts 69-80: the hook's clearTyping.
clearTypingOnSend(c) ==
  LET stopped == [c EXCEPT !.debounceTimer = FALSE, !.autoClearTimer = FALSE] IN
  IF c.isTyping
    THEN [stopped EXCEPT !.isTyping = FALSE,
                         !.outbox = Append(@, Mutation("clearTyping", <<>>, NoFile, TRUE))]
    ELSE stopped

\* MessageInput.tsx 117-120
handleChange(c, value) ==
  LET typed == [c EXCEPT !.content = value, !.sent = FALSE] IN
  IF trim(value) # <<>> THEN notifyTyping(typed) ELSE typed

\* MessageInput.tsx 66-89: an allowed file is selected.
validateAndSelectFile(c, file) == [c EXCEPT !.selectedFile = file]

\* MessageInput.tsx 131
hasContent(c) == trim(c.content) # <<>> \/ c.selectedFile # NoFile

\* MessageInput.tsx 175-181: the send mutation is issued and awaited.
sendMessage(c, file) ==
  [c EXCEPT !.outbox = Append(@, Mutation("send", c.contentToSend, file, TRUE)),
            !.awaiting = "send", !.reply = "none"]

\* MessageInput.tsx 146-181, up to the next await.
uploadOrSend(c) ==
  IF c.fileToUpload # NoFile
    THEN [c EXCEPT !.outbox = Append(@, Mutation("generateUploadUrl", <<>>, NoFile, TRUE)),
                   !.awaiting = "generateUploadUrl", !.reply = "none"]
    ELSE sendMessage(c, NoFile)

\* MessageInput.tsx 129-144, up to the first await that suspends.
handleSend(c) ==
  LET started == [c EXCEPT !.isUploading = TRUE,
                           !.contentToSend = trim(c.content),
                           !.fileToUpload = c.selectedFile,
                           !.content = <<>>, !.selectedFile = NoFile]
      cleared == clearTypingOnSend(started)
  IN IF Len(cleared.outbox) > Len(started.outbox)
       THEN [cleared EXCEPT !.awaiting = "clearTyping", !.reply = "none"]
       ELSE uploadOrSend(cleared)

\* MessageInput.tsx 184-193: catch and finally.
sendFailed(c) ==
  [c EXCEPT !.content = c.contentToSend, !.selectedFile = c.fileToUpload,
            !.isUploading = FALSE, !.awaiting = "nothing", !.reply = "none"]

\* MessageInput.tsx 183, 190-193: the try block ran through.
sendCompleted(c) ==
  [c EXCEPT !.isUploading = FALSE, !.awaiting = "nothing", !.reply = "none",
            !.sent = TRUE]

\* handleSend resumes after the awaited mutation has settled.  A rejected
\* clearTyping is logged by the hook and not rethrown (useTyping.ts 78).
resumed(c) ==
  CASE c.awaiting = "clearTyping" -> uploadOrSend(c)
    [] c.awaiting = "generateUploadUrl" ->
         IF c.reply = "ok" THEN [c EXCEPT !.awaiting = "fetch", !.reply = "none"]
         ELSE sendFailed(c)
    [] c.awaiting = "send" ->
         IF c.reply = "ok" THEN sendCompleted(c) ELSE sendFailed(c)

\* MessageInput.tsx 157-173: the file is posted to the upload URL.
uploaded(c, responseOk) ==
  IF responseOk THEN sendMessage(c, c.fileToUpload) ELSE sendFailed(c)

\* ---------------------------------------------------------------- state
\* The tables are empty but for the profiles upsertUser has synced.
Init ==
  /\ users = [i \in 1..Len(Registered) |->
                [clerkId |-> Registered[i], name |-> Registered[i],
                 email |-> "mail", imageUrl |-> "img"]]
  /\ conversations = <<>>
  /\ members = <<>>
  /\ messages = <<>>
  /\ reactions = <<>>
  /\ presence = <<>>
  /\ typing = <<>>
  /\ now = 1
  /\ firstDM = [p \in {} |-> 0]
  /\ client = mountedInput

\* The database after a mutation that returned, called past the message input.
Commit(o) ==
  /\ o.ok
  /\ client' = client
  /\ Len(o.db.conversations) <= MaxConvs
  /\ Len(o.db.messages) <= MaxMsgs
  /\ Len(o.db.reactions) <= MaxReactions
  /\ users' = o.db.users
  /\ conversations' = o.db.conversations
  /\ members' = o.db.members
  /\ messages' = o.db.messages
  /\ reactions' = o.db.reactions
  /\ presence' = o.db.presence
  /\ typing' = o.db.typing

\* Date.now() advances between transactions; it never goes back.
Tick ==
  /\ now < MaxTime
  /\ now' = now + 1
  /\ UNCHANGED <<users, conversations, members, messages, reactions, presence,
                 typing, firstDM, client>>

\* firstDM: the id the first getOrCreateDM call of each pair returned.
GetOrCreateDM(calls) ==
  \E call \in calls :
    LET o == getOrCreateDM(DB, now, call[1], call[2])
        pair == {getAuthUserOrNull(DB, call[1]), call[2]}
    IN /\ Commit(o)
       /\ firstDM' = IF pair \in DOMAIN firstDM THEN firstDM
                     ELSE firstDM @@ (pair :> o.value)
       /\ UNCHANGED now

CreateGroup(calls) ==
  \E call \in calls :
    /\ Commit(createGroup(DB, now, call[1], call[2], call[3]))
    /\ UNCHANGED <<now, firstDM>>

ConvArgs == 1..MaxConvs
MsgArgs == 1..MaxMsgs

MarkAsRead ==
  \E caller \in Callers, conversationId \in ConvArgs :
    /\ Commit(markAsRead(DB, now, caller, conversationId))
    /\ UNCHANGED <<now, firstDM>>

Send ==
  \E caller \in Callers, conversationId \in ConvArgs, input \in SendInputs :
    /\ Commit(send(DB, now, caller, conversationId, input[1], input[2]))
    /\ UNCHANGED <<now, firstDM>>

SoftDelete ==
  \E caller \in Callers, messageId \in MsgArgs :
    /\ Commit(softDelete(DB, caller, messageId))
    /\ UNCHANGED <<now, firstDM>>

\* Date.now() after a pause of one of the given lengths.
Elapse(pauses, horizon) ==
  \E pause \in pauses :
    /\ now + pause <= horizon
    /\ now' = now + pause
    /\ UNCHANGED <<users, conversations, members, messages, reactions, presence,
                   typing, firstDM, client>>

SetOnline(callers) ==
  \E caller \in callers :
    /\ Commit(setOnline(DB, now, caller))
    /\ UNCHANGED <<now, firstDM>>

SetOffline(callers) ==
  \E caller \in callers :
    /\ Commit(setOffline(DB, now, caller))
    /\ UNCHANGED <<now, firstDM>>

Heartbeat(callers) ==
  \E caller \in callers :
    /\ Commit(heartbeat(DB, now, caller))
    /\ UNCHANGED <<now, firstDM>>

UpsertUser(callers, profiles) ==
  \E caller \in callers, profile \in profiles :
    /\ Commit(upsertUser(DB, caller, profile[1], profile[2], profile[3], profile[4]))
    /\ UNCHANGED <<now, firstDM>>

SetTyping(callers, conversationIds) ==
  \E caller \in callers, conversationId \in conversationIds :
    /\ Commit(setTyping(DB, now, caller, conversationId))
    /\ UNCHANGED <<now, firstDM>>

ClearTyping(callers, conversationIds) ==
  \E caller \in callers, conversationId \in conversationIds :
    /\ Commit(clearTyping(DB, caller, conversationId))
    /\ UNCHANGED <<now, firstDM>>

ToggleReaction(callers) ==
  \E caller \in callers, messageId \in MsgArgs, emoji \in Emojis :
    /\ Commit(toggleReaction(DB, caller, messageId, emoji))
    /\ UNCHANGED <<now, firstDM>>

\* The server applies the client's oldest outstanding mutation, as
\* ClientUser on ClientConversation; a mutation that throws writes nothing.
applied(db, t, m) ==
  CASE m.name = "setTyping" -> setTyping(db, t, ClientUser, ClientConversation)
    [] m.name = "clearTyping" -> clearTyping(db, ClientUser, ClientConversation)
    [] m.name = "generateUploadUrl" -> generateUploadUrl(db, ClientUser)
    [] m.name = "send" ->
         send(db, t, ClientUser, ClientConversation, m.content, m.file)

Deliver ==
  /\ client.outbox # <<>>
  /\ LET m == Head(client.outbox)
         o == applied(DB, now, m)
     IN /\ Len(o.db.messages) <= MaxMsgs
        /\ users' = o.db.users
        /\ conversations' = o.db.conversations
        /\ members' = o.db.members
        /\ messages' = o.db.messages
        /\ reactions' = o.db.reactions
        /\ presence' = o.db.presence
        /\ typing' = o.db.typing
        /\ client' = [client EXCEPT
                        !.outbox = Tail(@),
                        !.reply = IF ~m.awaited THEN @
                                  ELSE IF o.ok THEN "ok" ELSE "error"]
  /\ UNCHANGED <<now, firstDM>>

Stored == <<users, conversations, members, messages, reactions, presence,
            typing, now, firstDM>>

\* The text input is disabled while isUploading (MessageInput.tsx 292).  No
\* key is pressed while MaxPending mutations wait for the server.
HandleChange ==
  /\ ~client.isUploading
  /\ Len(client.outbox) < MaxPending
  /\ \E value \in ClientValues : client' = handleChange(client, value)
  /\ UNCHANGED Stored

\* The file picker is disabled while isUploading (MessageInput.tsx 265).
SelectFile ==
  /\ ~client.isUploading
  /\ client' = validateAndSelectFile(client, File1)
  /\ UNCHANGED Stored

DebounceElapsed ==
  /\ client.debounceTimer
  /\ client' = debounceElapsed(client)
  /\ UNCHANGED Stored

\* DEBOUNCE_MS < AUTO_CLEAR_MS and the debounce timer is never started after
\* the auto-clear timer: it has run out when the auto-clear timer fires.
AutoClearElapsed ==
  /\ client.autoClearTimer
  /\ ~client.debounceTimer
  /\ client' = autoClearElapsed(client)
  /\ UNCHANGED Stored

HandleSend ==
  /\ hasContent(client)
  /\ ~client.isUploading
  /\ client' = handleSend(client)
  /\ UNCHANGED Stored

Resume ==
  /\ client.awaiting \in {"clearTyping", "generateUploadUrl", "send"}
  /\ client.reply # "none"
  /\ client' = resumed(client)
  /\ UNCHANGED Stored

Upload ==
  /\ client.awaiting = "fetch"
  /\ \E responseOk \in BOOLEAN : client' = uploaded(client, responseOk)
  /\ UNCHANGED Stored

\* ---------------------------------------------------------------- specs
\* SpecConv: the conversation manager under every argument it accepts.
MemberIdLists == UNION {[1..n -> UserIds] : n \in 0..MaxMemberIds}
AllDMCalls == Callers \X UserIds
AllGroupCalls == Callers \X Names \X MemberIdLists

NextConv ==
  \/ Tick
  \/ GetOrCreateDM(AllDMCalls)
  \/ CreateGroup(AllGroupCalls)

SpecConv == Init /\ [][NextConv]_vars

\* Spec: conversations and messages.  alice and bob open their DM from either
\* side, alice opens a group with bob; every caller (carol, a registered
\* outsider, included) sends, marks as read and deletes everywhere.
ChatDMCalls == {<<"alice", 2>>, <<"bob", 1>>}
ChatGroupCalls == {<<"alice", <<" ", "g">>, <<2, 2>>>>}

Next ==
  \/ Tick
  \/ GetOrCreateDM(ChatDMCalls)
  \/ CreateGroup(ChatGroupCalls)
  \/ MarkAsRead
  \/ Send
  \/ SoftDelete

Spec == Init /\ [][Next]_vars

\* SpecReact: reactions.  alice opens the DM with bob and a group and writes
\* in them; alice, bob, a caller without a profile and one without an identity
\* toggle every emoji on every message id.
ReactDMCalls == {<<"alice", 2>>}
ReactSenders == {"alice"}
ReactCallers == {"alice", "bob", "dave", NoIdentity}

SendHi(senders) ==
  \E caller \in senders, conversationId \in ConvArgs :
    /\ Commit(send(DB, now, caller, conversationId, Hi, NoFile))
    /\ UNCHANGED <<now, firstDM>>

NextReact ==
  \/ GetOrCreateDM(ReactDMCalls)
  \/ CreateGroup(ChatGroupCalls)
  \/ SendHi(ReactSenders)
  \/ ToggleReaction(ReactCallers)

SpecReact == Init /\ [][NextReact]_vars

\* SpecPresence: alice, bob, a caller without a profile and one without an
\* identity go online, offline and send heartbeats, with pauses just under
\* and exactly as long as the online threshold.
PresenceCallers == {"alice", "bob", "dave", NoIdentity}
PresencePauses == {ONLINE_THRESHOLD_MS - 1, ONLINE_THRESHOLD_MS}
PresenceHorizon == 1 + MaxIdle * ONLINE_THRESHOLD_MS

NextPresence ==
  \/ Elapse(PresencePauses, PresenceHorizon)
  \/ SetOnline(PresenceCallers)
  \/ SetOffline(PresenceCallers)
  \/ Heartbeat(PresenceCallers)

SpecPresence == Init /\ [][NextPresence]_vars

\* SpecTyping: alice, bob, a caller without a profile and one without an
\* identity signal and clear typing under two conversation ids (neither
\* mutation looks the conversation up), with pauses just under and exactly as
\* long as the typing timeout.
TypingCallers == {"alice", "bob", "dave", NoIdentity}
TypingConversations == {1, 2}
TypingPauses == {TYPING_TIMEOUT_MS - 1, TYPING_TIMEOUT_MS}
TypingHorizon == 1 + MaxIdle * TYPING_TIMEOUT_MS

NextTyping ==
  \/ Elapse(TypingPauses, TypingHorizon)
  \/ SetTyping(TypingCallers, TypingConversations)
  \/ ClearTyping(TypingCallers, TypingConversations)

SpecTyping == Init /\ [][NextTyping]_vars

\* SpecUsers: profiles.  alice, a caller without a profile and one without an
\* identity upsert the profiles of alice, of dave and of a subject nobody is
\* signed in as.
UpsertCallers == {"alice", "dave", NoIdentity}
UpsertProfiles == {"alice", "dave", "erin"} \X {"n1", "n2"} \X {"mail", "mail2"}
                    \X {"img", "img2"}

NextUsers == UpsertUser(UpsertCallers, UpsertProfiles)

SpecUsers == Init /\ [][NextUsers]_vars

\* SpecOwners: what each user owns.  alice opens the DM with bob; the two of
\* them (and the callers the server cannot resolve) write and read in it,
\* signal presence and signal typing in it, over two clock values.
OwnerCallers == {"alice", "bob", "dave", NoIdentity}
OwnerSenders == {"alice", "bob"}
OwnerConversations == {1}

NextOwners ==
  \/ Tick
  \/ GetOrCreateDM(ReactDMCalls)
  \/ SendHi(OwnerSenders)
  \/ MarkAsRead
  \/ SetOnline(OwnerCallers)
  \/ SetOffline(OwnerCallers)
  \/ Heartbeat(OwnerCallers)
  \/ SetTyping(OwnerCallers, OwnerConversations)
  \/ ClearTyping(OwnerCallers, OwnerConversations)

SpecOwners == Init /\ [][NextOwners]_vars

\* SpecClient: alice's message input on the page of DM 1, which alice opens
\* with bob before or after she starts typing (a send before that is refused).
\* The clock stands still: nothing in this flow compares two times.
NextClient ==
  \/ GetOrCreateDM(ReactDMCalls)
  \/ HandleChange
  \/ SelectFile
  \/ DebounceElapsed
  \/ AutoClearElapsed
  \/ HandleSend
  \/ Deliver
  \/ Resume
  \/ Upload

SpecClient == Init /\ [][NextClient]_vars

\* ---------------------------------------------------------------- claims
\* What the claims speak of, read off the tables directly.
Profile(caller) == {u \in UserIds : users[u].clerkId = caller}
IsMemberOf(u, c) == \E i \in 1..Len(members) :
                      members[i].userId = u /\ members[i].conversationId = c
MessagesOf(c) == {j \in 1..Len(messages) : messages[j].conversationId = c}
UnreadOf(db, caller, c) ==
  {e.unreadCount : e \in {x \in Range(listMyConversations(db, caller)) : x._id = c}}

\* C1: for every member M and conversation C of M, the unreadCount that
\* listMyConversations returns to M for C is the number of messages of C sent
\* strictly after M's lastReadTime by somebody else, deleted ones included.
C1_UnreadCountIsTheCount ==
  \A caller \in Callers : \A me \in Profile(caller) :
    LET result == listMyConversations(DB, caller)
        Count(c, lastReadTime) ==
          Cardinality({j \in MessagesOf(c) :
                         /\ messages[j].sentAt > lastReadTime
                         /\ messages[j].senderId # me})
    IN /\ \A i \in 1..Len(members) :
            members[i].userId = me =>
              \E k \in 1..Len(result) :
                /\ result[k]._id = members[i].conversationId
                /\ result[k].unreadCount =
                     Count(members[i].conversationId, members[i].lastReadTime)
       /\ \A k \in 1..Len(result) :
            \E i \in 1..Len(members) :
              /\ members[i].userId = me
              /\ members[i].conversationId = result[k]._id
              /\ result[k].unreadCount =
                   Count(members[i].conversationId, members[i].lastReadTime)

\* C1 witness: a member is shown one unread message, a deleted one, while an
\* older message of the same sender is behind the read cursor.
C1_Witness ==
  \E caller \in Callers : \E me \in Profile(caller) :
    \E e \in Range(listMyConversations(DB, caller)) :
      /\ e.unreadCount = 1
      /\ \E j \in MessagesOf(e._id) :
           /\ messages[j].senderId # me
           /\ messages[j].isDeleted
           /\ messages[j].sentAt > e.myLastReadTime
      /\ \E j \in MessagesOf(e._id) :
           /\ messages[j].senderId # me
           /\ messages[j].sentAt <= e.myLastReadTime

\* C2: right after a send or a markAsRead by M in C that succeeded,
\* listMyConversations reports unreadCount = 0 to M for C.
C2_SendAndMarkAsReadClearUnread ==
  \A caller \in Callers, c \in ConvArgs :
    /\ \A input \in Contents \X Files :
         LET o == send(DB, now, caller, c, input[1], input[2])
         IN o.ok => UnreadOf(o.db, caller, c) = {0}
    /\ LET o == markAsRead(DB, now, caller, c)
       IN o.ok => UnreadOf(o.db, caller, c) = {0}

\* C2 witness: a member with two unread messages can send and can mark as read.
C2_Witness ==
  \E caller \in Callers, c \in ConvArgs :
    /\ UnreadOf(DB, caller, c) = {2}
    /\ send(DB, now, caller, c, PaddedHi, NoFile).ok
    /\ markAsRead(DB, now, caller, c).ok

\* C3: between two distinct users every getOrCreateDM call, from either side
\* and in every reachable state, returns the id the first call returned, and
\* that conversation is not a group.
C3_SameDMEveryTime ==
  \A caller \in Callers, other \in UserIds : \A me \in Profile(caller) :
    me # other =>
      LET o == getOrCreateDM(DB, now, caller, other)
      IN /\ o.ok
         /\ ~o.db.conversations[o.value].isGroup
         /\ {me, other} \in DOMAIN firstDM => o.value = firstDM[{me, other}]

\* C3 witness: the pair has its DM, which already holds a message, and shares an
\* older group.
C3_Witness ==
  \E a \in UserIds, b \in UserIds :
    /\ a # b
    /\ {a, b} \in DOMAIN firstDM
    /\ MessagesOf(firstDM[{a, b}]) # {}
    /\ \E g \in 1..Len(conversations) :
         /\ g < firstDM[{a, b}]
         /\ conversations[g].isGroup
         /\ IsMemberOf(a, g) /\ IsMemberOf(b, g)

MemberUsers(c) == {members[i].userId : i \in {k \in 1..Len(members) :
                                                members[k].conversationId = c}}

\* C4: no two non-group conversations have the same set of member users.
C4_OneDMPerPair ==
  \A c \in 1..Len(conversations), d \in 1..Len(conversations) :
    (c # d /\ ~conversations[c].isGroup /\ ~conversations[d].isGroup)
      => MemberUsers(c) # MemberUsers(d)

\* C4 witness: a user has two DMs, and either partner's call finds the right one.
C4_Witness ==
  \E c \in 1..Len(conversations), d \in 1..Len(conversations) :
    /\ c # d /\ ~conversations[c].isGroup /\ ~conversations[d].isGroup
    /\ Cardinality(MemberUsers(c)) = 2 /\ Cardinality(MemberUsers(d)) = 2
    /\ MemberUsers(c) \cap MemberUsers(d) # {}
    /\ firstDM[MemberUsers(c)] = c /\ firstDM[MemberUsers(d)] = d

\* C5: there is at most one membership row per (user, conversation), whatever
\* getOrCreateDM and createGroup are called with.
C5_OneMembershipPerPair ==
  \A i \in 1..Len(members), j \in 1..Len(members) :
    (members[i].userId = members[j].userId
       /\ members[i].conversationId = members[j].conversationId) => i = j

\* C6: createGroup throws and writes nothing when the trimmed name is empty or
\* memberIds names nobody but the caller; otherwise it adds one group with
\* 1 + |uniqueOthers| memberships.
C6_GroupNeedsAnotherMember ==
  \A call \in AllGroupCalls : \A me \in Profile(call[1]) :
    LET o == createGroup(DB, now, call[1], call[2], call[3])
        uniqueOthers == Range(call[3]) \ {me}
        c == Len(conversations) + 1
    IN IF trim(call[2]) = <<>> \/ uniqueOthers = {}
         THEN ~o.ok /\ o.db = DB
         ELSE /\ o.ok /\ o.value = c
              /\ Len(o.db.conversations) = c
              /\ o.db.conversations[c].isGroup
              /\ Len(o.db.members) = Len(members) + 1 + Cardinality(uniqueOthers)
              /\ {o.db.members[i].userId : i \in Len(members) + 1 .. Len(o.db.members)}
                   = uniqueOthers \cup {me}
              /\ \A i \in Len(members) + 1 .. Len(o.db.members) :
                   o.db.members[i].conversationId = c

\* C7: a send with blank content and no attachment, or by a caller who is not a
\* member of the conversation, throws and leaves every table as it was.
C7_FailedSendWritesNothing ==
  \A caller \in Callers, c \in ConvArgs, input \in Contents \X Files :
    LET o == send(DB, now, caller, c, input[1], input[2])
        blank == trim(input[1]) = <<>> /\ input[2].fileId = Absent
        member == \E me \in Profile(caller) : IsMemberOf(me, c)
    IN /\ (blank \/ ~member) => ~o.ok
       /\ ~o.ok => o.db = DB
       /\ ~o.ok => send(o.db, now, caller, c, input[1], input[2]) = o

\* C7 witness: a conversation with a message in it, a member whose blank send is
\* refused and a registered outsider whose send is refused.
C7_Witness ==
  \E c \in 1..Len(conversations), a \in Callers, b \in Callers :
    /\ MessagesOf(c) # {}
    /\ \E me \in Profile(a) : IsMemberOf(me, c)
    /\ ~send(DB, now, a, c, Blank, TypeOnly).ok
    /\ send(DB, now, a, c, Blank, File1).ok
    /\ \E me \in Profile(b) : ~IsMemberOf(me, c)
    /\ ~send(DB, now, b, c, Hi, File1).ok

\* The outsider's half of C8: null and the empty list, whatever C holds.
C8_NonMemberLearnsNothing ==
  \A caller \in Callers, c \in 1..Len(conversations) :
    (\A me \in Profile(caller) : ~IsMemberOf(me, c)) =>
      /\ getConversation(DB, caller, c) = Null
      /\ list(DB, caller, c).ok
      /\ list(DB, caller, c).value = <<>>

\* C8: to a caller who is not a member, getConversation returns null and list
\* returns the empty list (so nothing of C shows); a member gets the
\* conversation and every message of it.
C8_MembersOnly ==
  /\ C8_NonMemberLearnsNothing
  /\ \A caller \in Callers, c \in 1..Len(conversations) :
       (\E me \in Profile(caller) : IsMemberOf(me, c)) =>
         /\ getConversation(DB, caller, c) # Null
         /\ getConversation(DB, caller, c)._id = c
         /\ list(DB, caller, c).ok
         /\ {x._id : x \in Range(list(DB, caller, c).value)} = MessagesOf(c)
         /\ \A x \in Range(list(DB, caller, c).value) : x.message = messages[x._id]

\* C8 counterexample state: the only member of a conversation is refused its
\* message list.
C8_MemberRefused ==
  \E caller \in Callers, c \in 1..Len(conversations) :
    /\ \E me \in Profile(caller) : IsMemberOf(me, c)
    /\ ~list(DB, caller, c).ok

\* softDelete of a missing message, or by anybody but its sender, throws.
C9_Refused ==
  \A caller \in Callers, m \in MsgArgs :
    LET o == softDelete(DB, caller, m)
    IN (m > Len(messages)
          \/ \A me \in Profile(caller) : messages[m].senderId # me)
         => ~o.ok /\ o.db = DB

\* A step that sets isDeleted is the sender's softDelete of that message.
C9_Step ==
  \A m \in 1..Len(messages) :
    (~messages[m].isDeleted /\ messages'[m].isDeleted) =>
      \E caller \in Callers :
        /\ \E me \in Profile(caller) : messages[m].senderId = me
        /\ softDelete(DB, caller, m).ok
        /\ messages' = softDelete(DB, caller, m).db.messages

\* C9: softDelete of a message that does not exist, or by anybody but its
\* sender, throws and leaves every table as it was; and a step that sets a
\* message's isDeleted is a softDelete by that message's sender.
C9_OnlySenderDeletes == []C9_Refused /\ [][C9_Step]_vars

\* C9 witness: a message with text and a file that its sender has not deleted,
\* in a conversation with another member who may try.
C9_Witness ==
  \E m \in 1..Len(messages), caller \in Callers :
    /\ ~messages[m].isDeleted
    /\ messages[m].content = Hi /\ messages[m].fileId = "f1"
    /\ \E me \in Profile(caller) :
         /\ IsMemberOf(me, messages[m].conversationId)
         /\ messages[m].senderId # me
    /\ ~softDelete(DB, caller, m).ok

C10_Deleted(m) == messages[m].isDeleted /\ messages[m].content = <<>>

C10_Step ==
  \A m \in 1..Len(messages) :
    C10_Deleted(m) => messages'[m].isDeleted /\ messages'[m].content = <<>>

C10_Again ==
  \A m \in 1..Len(messages), caller \in Callers :
    (C10_Deleted(m) /\ \E me \in Profile(caller) : messages[m].senderId = me) =>
      /\ softDelete(DB, caller, m).ok
      /\ softDelete(DB, caller, m).db = DB

\* C10: a deleted message (isDeleted, content "") stays so under every
\* operation, and a second softDelete by its sender changes nothing.
C10_DeletedForGood == []C10_Again /\ [][C10_Step]_vars

\* C10 witness: a deleted message that kept its file, followed by a later message.
C10_Witness ==
  \E m \in 1..Len(messages) :
    /\ C10_Deleted(m)
    /\ messages[m].fileId = "f1"
    /\ m < Len(messages)
    /\ messages[Len(messages)].conversationId = messages[m].conversationId

\* C11: markAsRead by a caller without a membership in C throws and changes
\* nothing; by a member of C it returns, and sets that member's lastReadTime to
\* now and nothing else.
C11_MarkAsReadIffMember ==
  \A caller \in Callers, c \in 1..Len(conversations) :
    LET o == markAsRead(DB, now, caller, c)
        member == \E me \in Profile(caller) : IsMemberOf(me, c)
    IN IF member
         THEN /\ o.ok
              /\ Len(o.db.members) = Len(members)
              /\ \A i \in 1..Len(members) :
                   o.db.members[i] =
                     IF members[i].conversationId = c
                          /\ members[i].userId \in Profile(caller)
                       THEN [members[i] EXCEPT !.lastReadTime = now]
                       ELSE members[i]
              /\ [o.db EXCEPT !.members = members] = DB
         ELSE ~o.ok /\ o.db = DB

\* C11 counterexample state: a member of a conversation whose markAsRead throws.
C11_MemberRefused ==
  \E caller \in Callers, c \in 1..Len(conversations) :
    /\ \E me \in Profile(caller) : IsMemberOf(me, c)
    /\ ~markAsRead(DB, now, caller, c).ok

\* The scenario of C12 run from db: A opens the DM with B at t1, sends "hi" at
\* t2, B marks as read at t3, A deletes the message.
C12_Scenario(db, a, b, t1, t2, t3) ==
  LET A == Registered[a]
      B == Registered[b]
      opened == getOrCreateDM(db, t1, A, b)
      c == opened.value
      sent == send(opened.db, t2, A, c, Hi, NoFile)
      m == sent.value
      shown == {e \in Range(listMyConversations(sent.db, B)) : e._id = c}
      read == markAsRead(sent.db, t3, B, c)
      deleted == softDelete(read.db, A, m)
      listed == list(deleted.db, B, c)
  IN /\ opened.ok /\ sent.ok /\ read.ok /\ deleted.ok /\ listed.ok
     /\ Cardinality(shown) = 1
     /\ \A e \in shown : e.unreadCount = 1 /\ e.lastMessage.content = Hi
     /\ UnreadOf(read.db, B, c) = {0}
     /\ \E k \in 1..Len(listed.value) :
          /\ listed.value[k]._id = m
          /\ listed.value[k].message.content = <<>>
          /\ listed.value[k].message.isDeleted
          /\ \A j \in 1..Len(listed.value) : listed.value[j]._id = m => j = k

\* C12: from every reachable state in which two users A and B have no DM,
\* A's getOrCreateDM(B) and send("hi") show B that conversation with
\* unreadCount = 1 and last message "hi"; B's markAsRead then makes the count
\* 0; A's softDelete then shows B the message with content "" and isDeleted.
C12_EndToEnd ==
  \A a \in UserIds, b \in UserIds :
    (a # b /\ findDM(DB, a, b) = 0) =>
      \A t2 \in now..(now + 1) : \A t3 \in t2..(t2 + 1) :
        C12_Scenario(DB, a, b, now, t2, t3)

\* C12 witness: the scenario has run.  The DM of A and B, opened by A, holds
\* one message, A's, deleted; B has marked the conversation as read since and
\* is shown no unread message and the emptied message.
C12_Witness ==
  \E a \in UserIds, b \in UserIds, c \in 1..Len(conversations) :
    /\ a # b /\ ~conversations[c].isGroup /\ MemberUsers(c) = {a, b}
    /\ \E m \in 1..Len(messages) :
         /\ MessagesOf(c) = {m}
         /\ messages[m].senderId = a
         /\ messages[m].isDeleted /\ messages[m].content = <<>>
         /\ \E i \in 1..Len(members) :
              /\ members[i].userId = b /\ members[i].conversationId = c
              /\ members[i].lastReadTime >= messages[m].sentAt
         /\ UnreadOf(DB, Registered[b], c) = {0}
         /\ \E x \in Range(list(DB, Registered[b], c).value) :
              x._id = m /\ x.message.isDeleted

\* C13: the messages list returns to a member are in the order their sends
\* were accepted (the order of their ids): ascending by sentAt, the messages of
\* one millisecond in insertion order.
C13_ListInSendOrder ==
  \A caller \in Callers, c \in 1..Len(conversations) :
    (\E me \in Profile(caller) : IsMemberOf(me, c)) =>
      LET result == list(DB, caller, c).value
      IN /\ {result[k]._id : k \in 1..Len(result)} = MessagesOf(c)
         /\ \A k \in 1..Len(result), j \in 1..Len(result) :
              k < j => /\ result[k]._id < result[j]._id
                       /\ result[k].message.sentAt <= result[j].message.sentAt

\* C13 witness: a member is listed two messages of one millisecond, sent by
\* different members.
C13_Witness ==
  \E caller \in Callers, c \in 1..Len(conversations) :
    /\ \E me \in Profile(caller) : IsMemberOf(me, c)
    /\ LET result == list(DB, caller, c).value
       IN /\ Len(result) = 2
          /\ result[1].message.sentAt = result[2].message.sentAt
          /\ result[1].sender # result[2].sender

\* The number of rows of reaction table t for (message, user, emoji).
ReactionRows(t, m, u, e) ==
  Cardinality({i \in 1..Len(t) :
                 t[i].messageId = m /\ t[i].userId = u /\ t[i].emoji = e})
SameReactions(t1, t2) ==
  \A m \in MsgArgs, u \in UserIds, e \in Emojis :
    ReactionRows(t1, m, u, e) = ReactionRows(t2, m, u, e)

\* C14: one toggleReaction by a user leaves one (message, user, emoji) row if
\* there was none and none if there was one; a second toggle by the same user
\* with the same emoji gives back the rows the table had before the first.
C14_ToggleRoundTrip ==
  \A caller \in Callers, m \in MsgArgs, e \in Emojis : \A me \in Profile(caller) :
    LET once == toggleReaction(DB, caller, m, e)
        twice == toggleReaction(once.db, caller, m, e)
        before == ReactionRows(reactions, m, me, e)
    IN /\ once.ok /\ twice.ok
       /\ before \in {0, 1}
       /\ ReactionRows(once.db.reactions, m, me, e) = 1 - before
       /\ Len(once.db.reactions) = Len(reactions) + 1 - 2 * before
       /\ SameReactions(twice.db.reactions, reactions)
       /\ Len(twice.db.reactions) = Len(reactions)
       /\ [twice.db EXCEPT !.reactions = reactions] = DB

\* C14 witness: a user's reaction that is not the newest row, next to the same
\* user's other emoji on that message: two toggles delete it and make it anew.
C14_Witness ==
  \E caller \in Callers, m \in MsgArgs : \E me \in Profile(caller) :
    /\ Len(reactions) >= 2
    /\ reactions[1] = [messageId |-> m, userId |-> me, emoji |-> ThumbsUp]
    /\ ReactionRows(reactions, m, me, Heart) = 1
    /\ toggleReaction(toggleReaction(DB, caller, m, ThumbsUp).db,
                      caller, m, ThumbsUp).db.reactions # reactions

\* C15: the reaction table never holds two rows of one (message, user, emoji),
\* toggles being atomic transactions; and a toggle leaves the rows of every
\* other user and of every other emoji as they are.
C15_OneRowPerTriple ==
  /\ \A i \in 1..Len(reactions), j \in 1..Len(reactions) :
       reactions[i] = reactions[j] => i = j
  /\ \A caller \in Callers, m \in MsgArgs, e \in Emojis : \A me \in Profile(caller) :
       LET o == toggleReaction(DB, caller, m, e)
       IN \A m2 \in MsgArgs, u2 \in UserIds, e2 \in Emojis :
            <<m2, u2, e2>> # <<m, me, e>> =>
              ReactionRows(o.db.reactions, m2, u2, e2)
                = ReactionRows(reactions, m2, u2, e2)

\* C15 witness: two users have the same emoji on a message, and one of them
\* has it on another message too.
C15_Witness ==
  \E m \in MsgArgs, m2 \in MsgArgs, u \in UserIds, u2 \in UserIds :
    /\ m # m2 /\ u # u2
    /\ ReactionRows(reactions, m, u, ThumbsUp) = 1
    /\ ReactionRows(reactions, m, u2, ThumbsUp) = 1
    /\ ReactionRows(reactions, m2, u, ThumbsUp) = 1

\* What C16 says of conversation c and caller: the batch entry of each message
\* of c (empty without a key) has the summaries getReactions returns for it,
\* count being the number of users with that emoji on the message and
\* hasReacted whether the caller is one of them; and every key is a message of c.
C16_Agree(caller, c) ==
  LET batch == getReactionsForConversation(DB, caller, c)
      entry(m) == IF m \in DOMAIN batch.value THEN Range(batch.value[m]) ELSE {}
      reactors(m, e) == {u \in UserIds : ReactionRows(reactions, m, u, e) > 0}
  IN /\ \A m \in MessagesOf(c) :
          LET single == getReactions(DB, caller, m)
          IN single.ok =>
               /\ batch.ok
               /\ entry(m) = Range(single.value)
               /\ entry(m) =
                    {[emoji |-> e,
                      count |-> Cardinality(reactors(m, e)),
                      hasReacted |-> Profile(caller) \cap reactors(m, e) # {}] :
                       e \in {x \in Emojis : reactors(m, x) # {}}}
     /\ batch.ok => DOMAIN batch.value \subseteq MessagesOf(c)

\* C16 holds where every stored emoji is one the client offers.
C16_AgreeOnClientEmoji ==
  (\A i \in 1..Len(reactions) : reactions[i].emoji \notin PrototypeKeys) =>
    \A caller \in Callers, c \in 1..Len(conversations) : C16_Agree(caller, c)

\* C16: for every conversation and caller, getReactionsForConversation agrees
\* with getReactions on each message of the conversation, and has no key
\* outside it.
C16_BatchAgreesWithSingle ==
  \A caller \in Callers, c \in 1..Len(conversations) : C16_Agree(caller, c)

\* C16 counterexample state: getReactions returns the summaries of a message
\* while getReactionsForConversation of its conversation throws.
C16_BatchThrows ==
  \E caller \in Callers, c \in 1..Len(conversations) : \E m \in MessagesOf(c) :
    /\ getReactions(DB, caller, m).ok
    /\ getReactions(DB, caller, m).value # <<>>
    /\ ~getReactionsForConversation(DB, caller, c).ok

PresenceRowsOf(t, u) == {i \in 1..Len(t) : t[i].userId = u}

\* C17: getPresenceMap reports a user online exactly when their row has
\* isOnline and now - lastSeen < 60000; right after the user's heartbeat the
\* report is the row's isOnline: online again for a stale online row, never
\* online for a row with isOnline = false.
C17_OnlineWhileFresh ==
  /\ DOMAIN getPresenceMap(DB, now) = {presence[i].userId : i \in 1..Len(presence)}
  /\ \A i \in 1..Len(presence) :
       getPresenceMap(DB, now)[presence[i].userId]
         = (presence[i].isOnline /\ now - presence[i].lastSeen < 60000)
  /\ \A caller \in Callers : \A me \in Profile(caller) :
       \A i \in PresenceRowsOf(presence, me) :
         LET o == heartbeat(DB, now, caller)
         IN /\ o.ok
            /\ o.db.presence[i].isOnline = presence[i].isOnline
            /\ getPresenceMap(o.db, now)[me] = presence[i].isOnline

\* C17 witness: an online row exactly 60000 ms old is reported offline and a
\* heartbeat brings it back, next to an offline row that was just refreshed.
C17_Witness ==
  \E i \in 1..Len(presence), j \in 1..Len(presence) :
    /\ presence[i].isOnline /\ now - presence[i].lastSeen = 60000
    /\ ~getPresenceMap(DB, now)[presence[i].userId]
    /\ getPresenceMap(heartbeat(DB, now, Registered[presence[i].userId]).db,
                      now)[presence[i].userId]
    /\ ~presence[j].isOnline /\ presence[j].lastSeen = now
    /\ ~getPresenceMap(DB, now)[presence[j].userId]

\* C18: a setOnline that returns leaves the caller one presence row with
\* isOnline = true and lastSeen = now, and a setOffline that returns leaves the
\* caller one presence row with isOnline = false and lastSeen = now, with or
\* without a row before the call.
C18_SetOnlineOfflineUpsert ==
  \A caller \in Callers : \A me \in Profile(caller) :
    LET on == setOnline(DB, now, caller)
        off == setOffline(DB, now, caller)
    IN /\ on.ok /\ off.ok
       /\ \E i \in 1..Len(on.db.presence) :
            /\ PresenceRowsOf(on.db.presence, me) = {i}
            /\ on.db.presence[i].isOnline /\ on.db.presence[i].lastSeen = now
       /\ \E i \in 1..Len(off.db.presence) :
            /\ PresenceRowsOf(off.db.presence, me) = {i}
            /\ ~off.db.presence[i].isOnline /\ off.db.presence[i].lastSeen = now

\* The half of C18 the code keeps: setOnline is an upsert, and setOffline
\* updates the row of a caller that has one.
C18_UpsertOnlineUpdateOffline ==
  \A caller \in Callers : \A me \in Profile(caller) :
    LET on == setOnline(DB, now, caller)
        off == setOffline(DB, now, caller)
    IN /\ on.ok /\ off.ok
       /\ \E i \in 1..Len(on.db.presence) :
            /\ PresenceRowsOf(on.db.presence, me) = {i}
            /\ on.db.presence[i].isOnline /\ on.db.presence[i].lastSeen = now
       /\ IF PresenceRowsOf(presence, me) = {} THEN off.db = DB
          ELSE \E i \in 1..Len(off.db.presence) :
                 /\ PresenceRowsOf(off.db.presence, me) = {i}
                 /\ ~off.db.presence[i].isOnline /\ off.db.presence[i].lastSeen = now

\* C19: to a caller with a profile getTypingUsers of C returns, once each, the
\* users other than the caller that have a typing row for C with
\* now - updatedAt < 3000; a row 3000 ms old or older is left out though it is
\* still stored, and so is the caller's own row.
C19_FreshTypersButMe ==
  \A caller \in Callers, c \in ConvArgs : \A me \in Profile(caller) :
    LET result == getTypingUsers(DB, now, caller, c)
    IN /\ {result[k]._id : k \in 1..Len(result)}
            = {typing[i].userId : i \in {j \in 1..Len(typing) :
                  /\ typing[j].conversationId = c
                  /\ typing[j].userId # me
                  /\ now - typing[j].updatedAt < 3000}}
       /\ \A k \in 1..Len(result), j \in 1..Len(result) :
            result[k]._id = result[j]._id => k = j
       /\ \A k \in 1..Len(result) : result[k].user = users[result[k]._id]

\* C19 witness: the caller is typing in C, fresh, and so is another user in
\* another conversation, whose row for C is exactly 3000 ms old: nobody is
\* returned for C.
C19_Witness ==
  \E caller \in Callers, c \in ConvArgs, d \in ConvArgs :
    \E me \in Profile(caller), other \in UserIds :
      /\ c # d /\ other # me
      /\ \E i \in 1..Len(typing) :
           typing[i] = [conversationId |-> c, userId |-> me, updatedAt |-> now]
      /\ \E i \in 1..Len(typing) :
           typing[i] = [conversationId |-> c, userId |-> other,
                        updatedAt |-> now - 3000]
      /\ \E i \in 1..Len(typing) :
           typing[i] = [conversationId |-> d, userId |-> other, updatedAt |-> now]
      /\ getTypingUsers(DB, now, caller, c) = <<>>
      /\ Len(getTypingUsers(DB, now, caller, d)) = 1

\* The mutation threw and wrote nothing.
C20_Refused(o) == ~o.ok /\ o.db = DB

\* Every write but upsertUser, called by caller with every argument, is refused.
C20_WritesRefused(caller) ==
  /\ \A other \in UserIds : C20_Refused(getOrCreateDM(DB, now, caller, other))
  /\ \A name \in Names, memberIds \in MemberIdLists :
       C20_Refused(createGroup(DB, now, caller, name, memberIds))
  /\ \A c \in ConvArgs :
       /\ C20_Refused(markAsRead(DB, now, caller, c))
       /\ C20_Refused(setTyping(DB, now, caller, c))
       /\ C20_Refused(clearTyping(DB, caller, c))
       /\ \A input \in Contents \X Files :
            C20_Refused(send(DB, now, caller, c, input[1], input[2]))
  /\ \A m \in MsgArgs :
       /\ C20_Refused(softDelete(DB, caller, m))
       /\ \A e \in Emojis : C20_Refused(toggleReaction(DB, caller, m, e))
  /\ C20_Refused(setOnline(DB, now, caller))
  /\ C20_Refused(setOffline(DB, now, caller))
  /\ C20_Refused(heartbeat(DB, now, caller))
  /\ C20_Refused(generateUploadUrl(DB, caller))

\* The part of C20 the code keeps: without an identity, or without a profile
\* for the identity, every write other than upsertUser is refused.
C20_ProfileNeededToWrite ==
  \A caller \in Callers :
    (caller = NoIdentity \/ Profile(caller) = {}) => C20_WritesRefused(caller)

\* C20: without a verified identity every write, upsertUser included, throws
\* and leaves the database as it was; with an identity that has no profile
\* every write other than upsertUser does.
C20_WritesNeedIdentity ==
  /\ C20_ProfileNeededToWrite
  /\ \A profile \in UpsertProfiles :
       C20_Refused(upsertUser(DB, NoIdentity, profile[1], profile[2],
                              profile[3], profile[4]))

\* C20 counterexample state: a profile exists for a subject no caller was ever
\* signed in as.
C20_ProfileOfNobody ==
  \E u \in UserIds : users[u].clerkId \notin Callers

\* What C21 says of one upsertUser call but for the fields it names: the call
\* returns, the subject has one row, the call returns that row's id, the listed
\* fields of the row are the call's arguments, and the same call again returns
\* the same id and changes nothing.
C21_Upserted(profile, fields) ==
  LET o == upsertUser(DB, profile[1], profile[1], profile[2], profile[3], profile[4])
      again == upsertUser(o.db, profile[1], profile[1], profile[2], profile[3], profile[4])
      rows == {u \in 1..Len(o.db.users) : o.db.users[u].clerkId = profile[1]}
      given == [name |-> profile[2], email |-> profile[3], imageUrl |-> profile[4]]
  IN /\ o.ok /\ again.ok
     /\ rows = {o.value}
     /\ \A u \in Profile(profile[1]) : o.value = u
     /\ \A f \in fields : o.db.users[o.value][f] = given[f]
     /\ again.value = o.value
     /\ again.db = o.db

C21_OneRowPerSubject ==
  \A u \in UserIds, v \in UserIds : users[u].clerkId = users[v].clerkId => u = v

\* The part of C21 the code keeps: one row per external id, a stable user id,
\* name and imageUrl as given, and a repeated call changes nothing.
C21_UpsertNameAndImage ==
  /\ C21_OneRowPerSubject
  /\ \A profile \in UpsertProfiles : C21_Upserted(profile, {"name", "imageUrl"})

\* C21: there is at most one user row per external id; upsertUser returns the
\* same user id for the same external id every time; after a call the row's
\* name, email and imageUrl are the call's arguments; repeating the call
\* changes nothing.
C21_UpsertStoresArguments ==
  /\ C21_OneRowPerSubject
  /\ \A profile \in UpsertProfiles :
       C21_Upserted(profile, {"name", "email", "imageUrl"})

\* A caller the optional resolution gives no user: no identity, or no profile.
Unresolved(caller) == caller = NoIdentity \/ Profile(caller) = {}

\* What C22 says of one caller: every query returns, with its empty result or
\* with hasReacted false in every summary.
C22_Degrades(caller) ==
  /\ listMyConversations(DB, caller) = <<>>
  /\ \A c \in ConvArgs :
       /\ list(DB, caller, c).ok /\ list(DB, caller, c).value = <<>>
       /\ getConversation(DB, caller, c) = Null
       /\ getTypingUsers(DB, now, caller, c) = <<>>
       /\ LET batch == getReactionsForConversation(DB, caller, c)
          IN /\ batch.ok
             /\ \A m \in DOMAIN batch.value :
                  \A x \in Range(batch.value[m]) : ~x.hasReacted
  /\ \A m \in MsgArgs :
       LET single == getReactions(DB, caller, m)
       IN single.ok /\ \A x \in Range(single.value) : ~x.hasReacted

\* C22 holds where every stored emoji is one the client offers.
C22_DegradesOnClientEmoji ==
  (\A i \in 1..Len(reactions) : reactions[i].emoji \notin PrototypeKeys) =>
    \A caller \in Callers : Unresolved(caller) => C22_Degrades(caller)

\* C22: for a caller without a verified identity or without a profile no query
\* raises: listMyConversations, list and getTypingUsers return the empty list,
\* getConversation null, getReactions and getReactionsForConversation their
\* grouping with hasReacted = false everywhere.
C22_ReadsDegrade ==
  \A caller \in Callers : Unresolved(caller) => C22_Degrades(caller)

\* The rows of table t that belong to none of the users in own.
RowsOfOthers(t, own) == SelectSeq(t, LAMBDA row : row.userId \notin own)

\* Outcome o of a call by a caller whose user ids are own: every membership of
\* another user is as it was, and so are the presence and typing rows of the
\* other users, none added, changed or deleted.
C23_OthersKept(o, own) ==
  /\ Len(o.db.members) >= Len(members)
  /\ \A i \in 1..Len(members) :
       members[i].userId \notin own => o.db.members[i] = members[i]
  /\ RowsOfOthers(o.db.presence, own) = RowsOfOthers(presence, own)
  /\ RowsOfOthers(o.db.typing, own) = RowsOfOthers(typing, own)

\* Outcome o left the lastReadTime of every membership there was as it was.
C23_CursorsKept(o) ==
  /\ Len(o.db.members) >= Len(members)
  /\ \A i \in 1..Len(members) :
       o.db.members[i].lastReadTime = members[i].lastReadTime

\* C23: no operation changes the lastReadTime of a membership of a user other
\* than its caller, and of the caller's own memberships only send and
\* markAsRead do; no operation called by U creates, changes or deletes the
\* presence row or a typing row of another user.
C23_OwnerOnly ==
  \A caller \in Callers :
    LET own == Profile(caller)
        Kept(o) == C23_OthersKept(o, own) /\ C23_CursorsKept(o)
    IN /\ \A c \in ConvArgs :
            /\ C23_OthersKept(markAsRead(DB, now, caller, c), own)
            /\ \A input \in {<<Hi, NoFile>>, <<Blank, File1>>} :
                 C23_OthersKept(send(DB, now, caller, c, input[1], input[2]), own)
            /\ Kept(setTyping(DB, now, caller, c))
            /\ Kept(clearTyping(DB, caller, c))
       /\ \A other \in UserIds : Kept(getOrCreateDM(DB, now, caller, other))
       /\ \A memberIds \in MemberIdLists :
            Kept(createGroup(DB, now, caller, <<"g">>, memberIds))
       /\ \A m \in MsgArgs :
            /\ Kept(softDelete(DB, caller, m))
            /\ \A e \in Emojis : Kept(toggleReaction(DB, caller, m, e))
       /\ Kept(setOnline(DB, now, caller))
       /\ Kept(setOffline(DB, now, caller))
       /\ Kept(heartbeat(DB, now, caller))
       /\ Kept(generateUploadUrl(DB, caller))
       /\ \A profile \in UpsertProfiles :
            Kept(upsertUser(DB, caller, profile[1], profile[2], profile[3], profile[4]))

\* C23 witness: both members of a DM have an older read cursor, a presence row
\* and an older typing row, and either of them can send, mark as read, go
\* offline and clear typing.
C23_Witness ==
  \E c \in 1..Len(conversations) :
    \A caller \in {"alice", "bob"} : \E me \in Profile(caller) :
      /\ \E i \in 1..Len(members) :
           /\ members[i].userId = me /\ members[i].conversationId = c
           /\ members[i].lastReadTime < now
      /\ \E i \in 1..Len(presence) :
           presence[i].userId = me /\ presence[i].lastSeen < now
      /\ \E i \in 1..Len(typing) :
           /\ typing[i].userId = me /\ typing[i].conversationId = c
           /\ typing[i].updatedAt < now
      /\ send(DB, now, caller, c, Hi, NoFile).ok
      /\ markAsRead(DB, now, caller, c).ok

\* M's markAsRead (or send) in c at the current clock value, then another
\* member's send in c accepted at clock value t: M's unreadCount for c counts
\* that message.
C24_Counted(M, other, c, t) ==
  LET read == markAsRead(DB, now, M, c)
      wrote == send(DB, now, M, c, Hi, NoFile)
      afterRead == send(read.db, t, other, c, Hi, NoFile)
      afterWrote == send(wrote.db, t, other, c, Hi, NoFile)
  IN /\ (read.ok /\ afterRead.ok) => UnreadOf(afterRead.db, M, c) = {1}
     /\ (wrote.ok /\ afterWrote.ok) => UnreadOf(afterWrote.db, M, c) = {1}

\* The part of C24 the code keeps: a message accepted at a later clock value
\* than M's markAsRead or send is counted.
C24_CountedWhenLater ==
  \A M \in Callers, other \in Callers, c \in 1..Len(conversations) :
    Profile(M) # Profile(other) => C24_Counted(M, other, c, now + 1)

\* C24: a message of another member accepted in C after M's latest markAsRead
\* or send in C is counted by M's unreadCount for C, also when both
\* operations read the same clock value.
C24_NoMessageMissed ==
  \A M \in Callers, other \in Callers, c \in 1..Len(conversations) :
    Profile(M) # Profile(other) =>
      \A t \in now..(now + 1) : C24_Counted(M, other, c, t)

\* The denormalised last message of conversation c, as the tables of db have it.
C25_PointerRight(db, c) ==
  LET conv == db.conversations[c]
      own == {j \in 1..Len(db.messages) : db.messages[j].conversationId = c}
  IN IF conv.lastMessageId = 0 THEN own = {}
     ELSE /\ conv.lastMessageId \in own
          /\ \A j \in own : j <= conv.lastMessageId
          /\ conv.lastMessageTime = db.messages[conv.lastMessageId].sentAt
          /\ \A j \in own : db.messages[j].sentAt <= conv.lastMessageTime

\* C25: in every reachable state a conversation's lastMessageId is unset and
\* the conversation has no message, or it is the most recently accepted
\* message of that conversation, with lastMessageTime its sentAt and no sentAt
\* of the conversation later; a successful softDelete changes neither field.
C25_LastMessageDenormalised ==
  /\ \A c \in 1..Len(conversations) : C25_PointerRight(DB, c)
  /\ \A caller \in Callers, m \in MsgArgs :
       LET o == softDelete(DB, caller, m) IN
       o.ok => \A c \in 1..Len(conversations) :
                 /\ o.db.conversations[c].lastMessageId = conversations[c].lastMessageId
                 /\ o.db.conversations[c].lastMessageTime = conversations[c].lastMessageTime

\* A conversation without messages beside one with two messages sent at
\* different clock values, the earlier one soft-deleted.
C25_Witness ==
  /\ \E c \in 1..Len(conversations) : conversations[c].lastMessageId = 0
  /\ \E c \in 1..Len(conversations) :
       /\ conversations[c].lastMessageId = 2
       /\ MessagesOf(c) = {1, 2}
       /\ messages[1].isDeleted
       /\ messages[1].sentAt < messages[2].sentAt
       /\ conversations[c].lastMessageTime = messages[2].sentAt

\* caller is no member of conversation c.
C26_Outsider(caller, c) == \A u \in Profile(caller) : ~IsMemberOf(u, c)

\* The part of C26 the code keeps: send by a non-member raises and writes
\* nothing.
C26_SendNeedsMembership ==
  \A caller \in Callers, c \in 1..Len(conversations) :
    C26_Outsider(caller, c) =>
      \A input \in SendInputs :
        LET o == send(DB, now, caller, c, input[1], input[2]) IN
        ~o.ok /\ o.db = DB

\* C26: a user who is not a member of conversation C cannot add a message to
\* C, add or remove a reaction on a message of C, or create a typing row for
\* C: each such call raises and writes nothing.
C26_WritesNeedMembership ==
  \A caller \in Callers, c \in 1..Len(conversations) :
    C26_Outsider(caller, c) =>
      /\ \A input \in SendInputs :
           LET o == send(DB, now, caller, c, input[1], input[2]) IN
           ~o.ok /\ o.db = DB
      /\ \A m \in MessagesOf(c), emoji \in Emojis :
           LET o == toggleReaction(DB, caller, m, emoji) IN
           ~o.ok /\ o.db = DB
      /\ LET o == setTyping(DB, now, caller, c) IN
         ~o.ok /\ o.db = DB

\* The typing rows of ClientUser in ClientConversation, and the setTyping
\* mutations of the client the server has yet to apply.
C27_TypingRows ==
  UNION {Range(typingByUserAndConversation(DB, u, ClientConversation)) :
           u \in Profile(ClientUser)}
C27_PendingSignals ==
  {i \in 1..Len(client.outbox) : client.outbox[i].name = "setTyping"}

\* C27: from the successful completion of a send from the message input until
\* the user's next keystroke, the store holds no typing row of that user for
\* the conversation, and none is on its way.
C27_NoTypingRowAfterSend ==
  client.sent => C27_TypingRows = {} /\ C27_PendingSignals = {}

\* alice typed "hi" (a typing row was signalled), sent it, and has pressed no
\* key since.
C27_Witness ==
  /\ client.sent
  /\ \E j \in MessagesOf(ClientConversation) :
       messages[j].content = Hi /\ messages[j].senderId \in Profile(ClientUser)
  /\ C27_TypingRows = {}

\* message with its soft-delete flag and its text put aside.
C28_Kept(message) == [message EXCEPT !.isDeleted = FALSE, !.content = <<>>]

\* C28: a successful softDelete leaves the target's fileId, fileType,
\* fileName, senderId, sentAt and conversationId, every other message, every
\* conversation's lastMessageId/lastMessageTime, every member's lastReadTime
\* and every unread count as they were.
C28_SoftDeleteFrame ==
  \A caller \in Callers, m \in MsgArgs :
    LET o == softDelete(DB, caller, m) IN
    o.ok =>
      /\ Len(o.db.messages) = Len(messages)
      /\ C28_Kept(o.db.messages[m]) = C28_Kept(messages[m])
      /\ \A j \in 1..Len(messages) : j # m => o.db.messages[j] = messages[j]
      /\ o.db.conversations = conversations
      /\ o.db.members = members
      /\ \A reader \in Callers, c \in 1..Len(conversations) :
           UnreadOf(o.db, reader, c) = UnreadOf(DB, reader, c)

\* A soft-deleted message that still has its attachment and is unread by
\* another member of its conversation.
C28_Witness ==
  \E j \in 1..Len(messages) :
    /\ messages[j].isDeleted
    /\ messages[j].fileId = File1.fileId
    /\ \E reader \in Callers :
         /\ Profile(reader) # {messages[j].senderId}
         /\ UnreadOf(DB, reader, messages[j].conversationId) = {1}

\* C29: in every reachable state there is at most one presence row per user
\* and at most one typing row per (conversation, user); clearTyping by a user
\* who has no typing row for the conversation returns and changes nothing.
C29_NoDuplicateRows ==
  /\ \A u \in UserIds : Len(presenceByUser(DB, u)) <= 1
  /\ \A u \in UserIds, c \in OwnerConversations :
       Len(typingByUserAndConversation(DB, u, c)) <= 1
  /\ \A i, j \in 1..Len(typing) :
       (typing[i].userId = typing[j].userId
          /\ typing[i].conversationId = typing[j].conversationId) => i = j
  /\ \A i, j \in 1..Len(presence) : presence[i].userId = presence[j].userId => i = j
  /\ \A caller \in Callers, c \in ConvArgs :
       (Profile(caller) # {}
          /\ \A u \in Profile(caller) : typingByUserAndConversation(DB, u, c) = <<>>) =>
         LET o == clearTyping(DB, caller, c) IN o.ok /\ o.db = DB

\* Both members have a presence row and a typing row; one presence row has
\* been set online and then offline, one typing row has been refreshed after
\* the clock moved on, and carol has no typing row to clear.
C29_Witness ==
  /\ Len(presence) = 2 /\ Len(typing) = 2
  /\ \E i \in 1..Len(presence) : ~presence[i].isOnline
  /\ \E i, j \in 1..Len(typing) : typing[i].updatedAt < typing[j].updatedAt
  /\ \A u \in Profile("carol") : typingByUserAndConversation(DB, u, 1) = <<>>

\* C30: heartbeat by a user with a presence row sets that row's lastSeen to
\* now and changes nothing else, isOnline included; by a user without a
\* presence row it returns, leaves the store as it was, and the user is still
\* absent from getPresenceMap.
C30_HeartbeatFrame ==
  \A caller \in Callers : \A u \in Profile(caller) :
    LET o == heartbeat(DB, now, caller)
        rows == PresenceRowsOf(presence, u)
    IN /\ o.ok
       /\ \A i \in rows : o.db = [DB EXCEPT !.presence[i].lastSeen = now]
       /\ rows = {} => /\ o.db = DB
                       /\ u \notin DOMAIN getPresenceMap(o.db, now)

\* One registered user has an offline row a heartbeat would refresh without
\* bringing them online, another has no row at all.
C30_Witness ==
  /\ \E i \in 1..Len(presence) :
       LET o == heartbeat(DB, now, Registered[presence[i].userId]) IN
       /\ ~presence[i].isOnline /\ presence[i].lastSeen < now
       /\ o.db.presence[i].lastSeen = now /\ ~o.db.presence[i].isOnline
  /\ \E u \in UserIds :
       /\ PresenceRowsOf(presence, u) = {}
       /\ Registered[u] \in PresenceCallers
====
